---- MODULE Spec2Model ----
(***************************************************************************)
(* The interview-prep client: the streaming question generator of the web  *)
(* page (src/frontend/src/pages/Home.jsx) and the one-shot generator of    *)
(* the native screen (src/frontend/app/index.tsx).                         *)
(*                                                                         *)
(* Text is a sequence of symbols.  A symbol stands for a run of characters *)
(* that no operation of the code looks inside ("event:", "status", "m1");  *)
(* the newline, the blank, the carriage return and the braces are symbols  *)
(* of their own, so that split('\n'), startsWith, slice and JSON.parse act *)
(* on the text as the code's do, and a chunk may end inside a line, inside *)
(* a prefix or inside a payload.                                           *)
(***************************************************************************)
EXTENDS Integers, Sequences, FiniteSets, TLC

VARIABLES
    app,              \* which client runs: "web" (Home.jsx) or "native" (index.tsx)
    mounted,          \* the Home route is shown (App.jsx Routes)
    inst,             \* number of the component instance now mounted
    jobDescription,   \* useState('')
    loading,          \* useState(false)
    isStreaming,      \* useState(false)
    questions,        \* useState(null)
    selectedCategory, \* useState('technical')
    streamStatus,     \* useState('')
    sessions,         \* one record per call of generateQuestionsStream / generateQuestions that passed validation
    timers,           \* pending setTimeout callbacks of 'complete': the instances they belong to
    alerts,           \* every alert() / Alert.alert() shown so far, in order
    clicks,           \* presses of the generate button so far
    loadingMore,      \* useState(false)
    extracting,       \* useState(false), native screen only
    requests,         \* one record per press of load more, per text extraction and per save started
    savingIds,        \* useState(new Set())
    selectedQuestion, \* useState(null): the question of the answer modal
    modalOpen         \* useState(false)

vars == <<app, mounted, inst, jobDescription, loading, isStreaming, questions,
          selectedCategory, streamStatus, sessions, timers, alerts, clicks,
          loadingMore, extracting, requests, savingIds, selectedQuestion, modalOpen>>

\* The state of load more and of text extraction, which the generators leave alone.
aside == <<loadingMore, extracting, requests, savingIds, selectedQuestion, modalOpen>>

\* The state of saving to favorites and of the answer modal.
favs == <<savingIds, selectedQuestion, modalOpen>>

(***************************************************************************)
(* Bounds of the model.                                                    *)
(***************************************************************************)
MaxPieces == 2   \* pieces (frames or single lines) of a response body in SpecStream
MaxFrames == 1   \* event frames of a response body in Spec
MaxClicks == 2   \* presses of the generate button
MaxMounts == 2   \* times the Home route is mounted
MaxRequests == 2 \* presses of load more and text extractions started

(***************************************************************************)
(* Text primitives.                                                        *)
(***************************************************************************)
NL == "\n"

EventPrefix == <<"event:", " ">>
DataPrefix  == <<"data:", " ">>

Whitespace == {" ", "\r", NL}

StartsWith(line, prefix) ==
    /\ Len(line) >= Len(prefix)
    /\ SubSeq(line, 1, Len(prefix)) = prefix

Slice(line, n) == SubSeq(line, n + 1, Len(line))

RECURSIVE Trim(_)
Trim(s) ==
    IF s = <<>> THEN s
    ELSE IF Head(s) \in Whitespace THEN Trim(Tail(s))
    ELSE IF s[Len(s)] \in Whitespace THEN Trim(SubSeq(s, 1, Len(s) - 1))
    ELSE s

\* String.prototype.split('\n'): the segments between newlines, at least one.
RECURSIVE Split(_)
Split(text) ==
    IF \A i \in 1..Len(text) : text[i] # NL THEN <<text>>
    ELSE LET i == CHOOSE k \in 1..Len(text) :
                      text[k] = NL /\ \A j \in 1..(k - 1) : text[j] # NL
         IN  <<SubSeq(text, 1, i - 1)>> \o Split(SubSeq(text, i + 1, Len(text)))

RECURSIVE Flatten(_)
Flatten(ls) == IF ls = <<>> THEN <<>> ELSE Head(ls) \o <<NL>> \o Flatten(Tail(ls))

(***************************************************************************)
(* JSON.parse on the payloads the backend sends.  A payload is an object   *)
(* with at most one member group, written "{" atom "}"; white space around *)
(* it is allowed by the JSON grammar.  Anything else is a SyntaxError.     *)
(***************************************************************************)
Atoms == {"m1", "t1", "t2", "b1", "x1", "ja", "jb"}
EmptyObject == "{}"
SyntaxError == "SyntaxError"

JSONParse(text) ==
    LET t == Trim(text) IN
    IF Len(t) = 2 /\ t[1] = "{" /\ t[2] = "}" THEN EmptyObject
    ELSE IF Len(t) = 3 /\ t[1] = "{" /\ t[3] = "}" /\ t[2] \in Atoms THEN t[2]
    ELSE SyntaxError

\* The members of a parsed payload the code reads; an absent member is undefined.
Undefined == "undefined"
Message(data)  == IF data = "m1" THEN "m1" ELSE Undefined
Category(data) == CASE data \in {"t1", "t2"} -> "technical"
                    [] data = "b1"           -> "behavioral"
                    [] data = "x1"           -> "system_design"
                    [] OTHER                 -> Undefined


(***************************************************************************)
(* Line Framer: buffer += chunk; lines = buffer.split('\n');               *)
(* buffer = lines.pop() || ''   (Home.jsx:65-67).                          *)
(* TextDecoder.decode(value, {stream: true}) hands over the text of the    *)
(* chunk; a chunk is modelled as that text.                                *)
(***************************************************************************)
\* Faulty variant of FrameChunk: the last segment is handed over as a line, not kept back.
FrameChunkNoPop(buffer, chunk) ==
    LET segs == Split(buffer \o chunk)
    IN  [lines  |-> IF segs[Len(segs)] = <<>> THEN SubSeq(segs, 1, Len(segs) - 1) ELSE segs,
         buffer |-> <<>>]

\* Faulty variant of FrameChunk: the pending fragment is not carried into the next chunk.
FrameChunkNoCarry(buffer, chunk) ==
    LET segs == Split(chunk)
    IN  [lines  |-> SubSeq(segs, 1, Len(segs) - 1),
         buffer |-> segs[Len(segs)]]

FrameChunk(buffer, chunk) ==
    LET segs == Split(buffer \o chunk)
    IN  [lines  |-> SubSeq(segs, 1, Len(segs) - 1),
         buffer |-> segs[Len(segs)]]

(***************************************************************************)
(* The for loop over the lines of one chunk (Home.jsx:69-82).  The result  *)
(* is the calls of handleStreamEvent it makes, in order; a call records    *)
(* the index of its data line (base + position in the batch).              *)
(* currentEvent is null or a string; null and '' are both falsy and are    *)
(* both written <<>>.                                                      *)
(***************************************************************************)
Null == <<>>

\* Faulty variant of Truthy: the loop does not test currentEvent.
TruthyAlways(s) == TRUE

Truthy(s) == s # <<>>

\* Faulty variant of DispatchLines: a SyntaxError ends the loop over the batch.
RECURSIVE DispatchLinesAbort(_, _, _, _)
DispatchLinesAbort(lines, currentEvent, base, calls) ==
    IF lines = <<>> THEN calls
    ELSE LET line == Head(lines) IN
         IF StartsWith(line, EventPrefix)
         THEN DispatchLinesAbort(Tail(lines), Slice(line, Len(EventPrefix)), base + 1, calls)
         ELSE IF StartsWith(line, DataPrefix) /\ Truthy(currentEvent)
         THEN LET data == JSONParse(Slice(line, Len(DataPrefix))) IN
              IF data = SyntaxError THEN calls
              ELSE DispatchLinesAbort(Tail(lines), Null, base + 1,
                                      Append(calls, [event |-> currentEvent,
                                                     data  |-> data,
                                                     line  |-> base + 1]))
         ELSE DispatchLinesAbort(Tail(lines), currentEvent, base + 1, calls)

\* Faulty variant of DispatchLines: the pending event name is not cleared after a data line.
RECURSIVE DispatchLinesKeepName(_, _, _, _)
DispatchLinesKeepName(lines, currentEvent, base, calls) ==
    IF lines = <<>> THEN calls
    ELSE LET line == Head(lines) IN
         IF StartsWith(line, EventPrefix)
         THEN DispatchLinesKeepName(Tail(lines), Slice(line, Len(EventPrefix)), base + 1, calls)
         ELSE IF StartsWith(line, DataPrefix) /\ Truthy(currentEvent)
         THEN LET data == JSONParse(Slice(line, Len(DataPrefix))) IN
              DispatchLinesKeepName(Tail(lines), currentEvent, base + 1,
                                    IF data = SyntaxError THEN calls
                                    ELSE Append(calls, [event |-> currentEvent,
                                                        data  |-> data,
                                                        line  |-> base + 1]))
         ELSE DispatchLinesKeepName(Tail(lines), currentEvent, base + 1, calls)

\* Faulty variant of DispatchLines: a line that is neither an event line nor a data line
\* clears the pending event name.
RECURSIVE DispatchLinesBlankResets(_, _, _, _)
DispatchLinesBlankResets(lines, currentEvent, base, calls) ==
    IF lines = <<>> THEN calls
    ELSE LET line == Head(lines) IN
         IF StartsWith(line, EventPrefix)
         THEN DispatchLinesBlankResets(Tail(lines), Slice(line, Len(EventPrefix)), base + 1, calls)
         ELSE IF StartsWith(line, DataPrefix) /\ Truthy(currentEvent)
         THEN LET data == JSONParse(Slice(line, Len(DataPrefix))) IN
              DispatchLinesBlankResets(Tail(lines), Null, base + 1,
                            IF data = SyntaxError THEN calls
                            ELSE Append(calls, [event |-> currentEvent,
                                                data  |-> data,
                                                line  |-> base + 1]))
         ELSE DispatchLinesBlankResets(Tail(lines),
                                       IF StartsWith(line, DataPrefix) THEN currentEvent ELSE Null,
                                       base + 1, calls)

RECURSIVE DispatchLines(_, _, _, _)
DispatchLines(lines, currentEvent, base, calls) ==
    IF lines = <<>> THEN calls
    ELSE LET line == Head(lines) IN
         IF StartsWith(line, EventPrefix)
         THEN DispatchLines(Tail(lines), Slice(line, Len(EventPrefix)), base + 1, calls)
         ELSE IF StartsWith(line, DataPrefix) /\ Truthy(currentEvent)
         THEN LET data == JSONParse(Slice(line, Len(DataPrefix))) IN
              DispatchLines(Tail(lines), Null, base + 1,
                            IF data = SyntaxError THEN calls
                            ELSE Append(calls, [event |-> currentEvent,
                                                data  |-> data,
                                                line  |-> base + 1]))
         ELSE DispatchLines(Tail(lines), currentEvent, base + 1, calls)

\* let currentEvent = null is inside the while loop: every chunk starts with no pending event.
ChunkCalls(lines, base) == DispatchLines(lines, Null, base, <<>>)

(***************************************************************************)
(* handleStreamEvent (Home.jsx:94-120) on the state of the instance that   *)
(* owns the session.  ui holds the state it writes: questions,             *)
(* streamStatus, selectedCategory, and the timers and alerts.              *)
(***************************************************************************)
Categories == {"technical", "behavioral", "situational", "company_specific"}

\* Faulty variant of AppendTo: the list of the category is not spread into the new one.
AppendToReplace(cats, category, data) == (category :> <<data>>) @@ cats

\* Faulty variant of AppendTo: the payload is put in front of the list.
AppendToFront(cats, category, data) ==
    IF category \in DOMAIN cats
    THEN [cats EXCEPT ![category] = <<data>> \o @]
    ELSE (category :> <<data>>) @@ cats

\* [...(prev[category] || []), data]
AppendTo(cats, category, data) ==
    IF category \in DOMAIN cats
    THEN [cats EXCEPT ![category] = Append(@, data)]
    ELSE (category :> <<data>>) @@ cats

\* Faulty variant of HandleStreamEvent: an error event also resets the result set.
HandleStreamEventErrorResets(ui, s, owner, event, data) ==
    CASE event = <<"status">> ->
            [ui EXCEPT !.streamStatus = Message(data)]
      [] event = <<"job_analysis">> ->
            [ui EXCEPT !.questions.job_analysis = data]
      [] event = <<"question">> ->
            [ui EXCEPT !.questions.cats = AppendTo(@, Category(data), data),
                       !.selectedCategory =
                           IF Category(data) = "technical" THEN "technical" ELSE @]
      [] event = <<"complete">> ->
            [ui EXCEPT !.streamStatus = "Complete!",
                       !.timers = Append(@, owner)]
      [] event = <<"error">> ->
            [ui EXCEPT !.alerts = Append(@, [sess |-> s, kind |-> "event",
                                             text |-> Message(data)]),
                       !.questions.cats = [c \in DOMAIN @ |-> <<>>]]
      [] OTHER -> ui

\* Faulty variant of HandleStreamEvent: an unrecognized event name is reported.
HandleStreamEventUnknownAlerts(ui, s, owner, event, data) ==
    CASE event = <<"status">> ->
            [ui EXCEPT !.streamStatus = Message(data)]
      [] event = <<"job_analysis">> ->
            [ui EXCEPT !.questions.job_analysis = data]
      [] event = <<"question">> ->
            [ui EXCEPT !.questions.cats = AppendTo(@, Category(data), data),
                       !.selectedCategory =
                           IF Category(data) = "technical" THEN "technical" ELSE @]
      [] event = <<"complete">> ->
            [ui EXCEPT !.streamStatus = "Complete!",
                       !.timers = Append(@, owner)]
      [] event = <<"error">> ->
            [ui EXCEPT !.alerts = Append(@, [sess |-> s, kind |-> "event",
                                             text |-> Message(data)])]
      [] OTHER ->
            [ui EXCEPT !.alerts = Append(@, [sess |-> s, kind |-> "event",
                                             text |-> "unknown event"])]

\* Faulty variant of HandleStreamEvent: a job analysis already set is kept.
HandleStreamEventFirstAnalysisWins(ui, s, owner, event, data) ==
    CASE event = <<"status">> ->
            [ui EXCEPT !.streamStatus = Message(data)]
      [] event = <<"job_analysis">> ->
            [ui EXCEPT !.questions.job_analysis = IF @ = "null" THEN data ELSE @]
      [] event = <<"question">> ->
            [ui EXCEPT !.questions.cats = AppendTo(@, Category(data), data),
                       !.selectedCategory =
                           IF Category(data) = "technical" THEN "technical" ELSE @]
      [] event = <<"complete">> ->
            [ui EXCEPT !.streamStatus = "Complete!",
                       !.timers = Append(@, owner)]
      [] event = <<"error">> ->
            [ui EXCEPT !.alerts = Append(@, [sess |-> s, kind |-> "event",
                                             text |-> Message(data)])]
      [] OTHER -> ui

HandleStreamEvent(ui, s, owner, event, data) ==
    CASE event = <<"status">> ->
            [ui EXCEPT !.streamStatus = Message(data)]
      [] event = <<"job_analysis">> ->
            [ui EXCEPT !.questions.job_analysis = data]
      [] event = <<"question">> ->
            [ui EXCEPT !.questions.cats = AppendTo(@, Category(data), data),
                       !.selectedCategory =
                           IF Category(data) = "technical" THEN "technical" ELSE @]
      [] event = <<"complete">> ->
            [ui EXCEPT !.streamStatus = "Complete!",
                       !.timers = Append(@, owner)]
      [] event = <<"error">> ->
            [ui EXCEPT !.alerts = Append(@, [sess |-> s, kind |-> "event",
                                             text |-> Message(data)])]
      [] OTHER -> ui

RECURSIVE ApplyCalls(_, _, _, _)
ApplyCalls(ui, s, owner, calls) ==
    IF calls = <<>> THEN ui
    ELSE ApplyCalls(HandleStreamEvent(ui, s, owner, Head(calls).event, Head(calls).data),
                    s, owner, Tail(calls))


(***************************************************************************)
(* Component state.                                                        *)
(***************************************************************************)
EmptyCats == [c \in {} |-> <<>>]

\* useState(null) / setQuestions(null)
NullQuestions == [null |-> TRUE, cats |-> EmptyCats, job_analysis |-> "null"]

\* setQuestions({technical: [], behavioral: [], situational: [], company_specific: [], job_analysis: null})
EmptyQuestions == [null |-> FALSE, cats |-> [c \in Categories |-> <<>>], job_analysis |-> "null"]

\* Faulty variant of ResetQuestions: a result set already shown is kept.
ResetQuestionsKeep(shown) == IF shown.null THEN EmptyQuestions ELSE shown

\* The reset of generateQuestionsStream (Home.jsx:32-38): whatever was shown is replaced.
ResetQuestions(shown) == EmptyQuestions

JobDescriptions == {<<>>, <<" ">>, <<"a">>}

UI == [questions        |-> questions,
       streamStatus     |-> streamStatus,
       selectedCategory |-> selectedCategory,
       timers           |-> timers,
       alerts           |-> alerts]

\* A state setter acts on the instance whose render created it; React drops
\* the update when that instance is no longer mounted.
Live(owner) == mounted /\ owner = inst

NewSession(kind, pc, rest) ==
    [kind     |-> kind,      \* "stream" or "oneshot"
     inst     |-> inst,      \* the instance whose handler runs the request
     jd       |-> jobDescription,
     pc       |-> pc,        \* "fetching", "reading", "done", "failed"
     ok       |-> TRUE,      \* response.ok
     rest     |-> rest,      \* text of the body the transport has not delivered yet
     buffer   |-> <<>>,      \* let buffer = ''
     consumed |-> <<>>,      \* observation: the text delivered so far
     lines    |-> <<>>,      \* observation: the complete lines framed so far
     calls    |-> <<>>,      \* observation: the calls of handleStreamEvent so far
     lost     |-> <<>>,      \* observation: the fragment left in buffer when the reader reported done
     prev     |-> questions] \* observation: the result set shown when the request started

(***************************************************************************)
(* The bodies the backend may send.                                        *)
(***************************************************************************)
EventLine(name) == EventPrefix \o name
DataLine(payload) == DataPrefix \o payload

RECURSIVE Concat(_)
Concat(fs) == IF fs = <<>> THEN <<>> ELSE Head(fs) \o Concat(Tail(fs))

Frame(name, payload) == Flatten(<<EventLine(name), DataLine(payload), <<>>>>)

Frames ==
    { Frame(<<"status">>,   <<"{", "m1", "}">>),
      Frame(<<"question">>, <<"{", "t1", "}">>),
      Frame(<<"question">>, <<"{", "b1", "}">>),
      Frame(<<"complete">>, <<"{", "}">>),
      Frame(<<"error">>,    <<"{", "m1", "}">>) }

\* A frame without the blank line after it.
Pair(name, payload) == Flatten(<<EventLine(name), DataLine(payload)>>)

\* The pieces a body of SpecStream is made of: frames, well-formed and not, and single lines.
Pieces ==
    { Pair(<<"status">>,   <<"{", "m1", "}">>),
      Pair(<<"question">>, <<"{", "t1", "}">>),
      Pair(<<"question">>, <<"{", "b1", "}">>),
      Pair(<<"question">>, <<"{", "t1">>),
      Pair(<<"error">>,    <<"{", "m1", "}">>),
      Pair(<<"complete">>, <<"{", "}">>),
      Pair(<<"ping">>,     <<"{", "m1", "}">>),
      Pair(<<"job_analysis">>, <<"{", "ja", "}">>),
      Pair(<<"job_analysis">>, <<"{", "jb", "}">>),
      Flatten(<<EventLine(<<"status">>), <<>>, <<":", "keepalive">>>>)
          \o Flatten(<<DataLine(<<"{", "m1", "}">>)>>),
      Pair(<<"question">>, <<"{", "x1", "}">>),
      Pair(<<"question">>, <<"{", "t2", "}">>),
      Pair(<<"status", "\r">>, <<"{", "m1", "}", "\r">>),
      Flatten(<<DataLine(<<"{", "t2", "}">>)>>),
      Flatten(<<EventLine(<<"status">>)>>),
      Flatten(<<<<>>>>) }

\* The last line of a body may lack its newline.
PartialLine == DataLine(<<"{", "t2", "}">>)

PieceSeqs(max) == UNION { [1..n -> Pieces] : n \in 0..max }

\* SpecStream: up to MaxPieces pieces, the last of which may be a line without its newline.
Texts ==
    { Concat(ps) : ps \in PieceSeqs(MaxPieces) }
    \cup { Concat(ps) \o PartialLine : ps \in PieceSeqs(MaxPieces - 1) }

\* Spec: up to MaxFrames frames, each closed by a blank line.
Responses == { Concat(fs) : fs \in UNION { [1..n -> Frames] : n \in 0..MaxFrames } }

\* The body of a response with a non-success status: {"detail": "..."}, no newline.
ErrorBody == <<"{", "detail", "}">>

\* What POST /api/generate-questions answers (index.tsx:51-57); a deployment may omit a category.
NativeResponses ==
    { [null |-> FALSE,
       cats |-> [c \in Categories |->
                    CASE c = "technical"  -> <<"t1", "t2">>
                      [] c = "behavioral" -> <<"b1">>
                      [] OTHER            -> <<>>],
       job_analysis |-> "ja"],
      [null |-> FALSE,
       cats |-> [c \in Categories \ {"company_specific"} |->
                    IF c = "technical" THEN <<"t2">> ELSE <<>>],
       job_analysis |-> "null"] }


(***************************************************************************)
(* Actions of both clients.                                                *)
(***************************************************************************)
Init ==
    /\ app \in {"web", "native"}
    /\ mounted = TRUE
    /\ inst = 1
    /\ jobDescription = <<>>
    /\ loading = FALSE
    /\ isStreaming = FALSE
    /\ questions = NullQuestions
    /\ selectedCategory = "technical"
    /\ streamStatus = ""
    /\ sessions = <<>>
    /\ timers = <<>>
    /\ alerts = <<>>
    /\ clicks = 0
    /\ loadingMore = FALSE
    /\ extracting = FALSE
    /\ requests = <<>>
    /\ savingIds = {}
    /\ selectedQuestion = "null"
    /\ modalOpen = FALSE

\* onChange / onChangeText of the job description input.
SetJobDescription(v) ==
    /\ mounted
    /\ v # jobDescription
    /\ jobDescription' = v
    /\ UNCHANGED <<app, mounted, inst, loading, isStreaming, questions, selectedCategory,
                   streamStatus, sessions, timers, alerts, clicks>>
    /\ UNCHANGED aside

\* Faulty variant of IsBlank: the description is not trimmed.
IsBlankNoTrim(jd) == jd = <<>>

\* The validation of generateQuestionsStream and generateQuestions: !jobDescription.trim()
IsBlank(jd) == Trim(jd) = <<>>

\* generateQuestionsStream up to its first await (Home.jsx:23-55).  The button is
\* disabled while loading.  eventSourceRef.current is never assigned, so the
\* close() of line 44 is never reached.
GenerateQuestionsStream ==
    /\ app = "web"
    /\ mounted
    /\ ~loading
    /\ clicks < MaxClicks
    /\ clicks' = clicks + 1
    /\ IF IsBlank(jobDescription)
       THEN /\ alerts' = Append(alerts, [sess |-> 0, kind |-> "validation",
                                         text |-> "Please enter a job description"])
            /\ UNCHANGED <<loading, isStreaming, questions, streamStatus,
                           selectedCategory, sessions>>
       ELSE /\ loading' = TRUE
            /\ isStreaming' = TRUE
            /\ questions' = ResetQuestions(questions)
            /\ streamStatus' = "Starting..."
            /\ selectedCategory' = "behavioral"
            /\ sessions' = Append(sessions, NewSession("stream", "fetching", <<>>))
            /\ UNCHANGED alerts
    /\ UNCHANGED <<app, mounted, inst, jobDescription, timers>>
    /\ UNCHANGED aside

\* The async function returns: its locals (reader, buffer) are gone, and the
\* observations of its read loop end with them; the calls it made stay on record.
Returned(ses, pc) ==
    [ses EXCEPT !.pc = pc, !.rest = <<>>, !.buffer = <<>>,
                !.consumed = <<>>, !.lines = <<>>,
                !.lost = IF pc = "done" THEN ses.buffer ELSE <<>>]

\* Faulty variant of Finally: only loading is cleared.
FinallyOnlyLoading(owner) ==
    /\ loading' = IF Live(owner) THEN FALSE ELSE loading
    /\ UNCHANGED <<isStreaming, streamStatus>>

\* finally { setLoading(false); setIsStreaming(false); setStreamStatus('') }
Finally(owner) ==
    /\ loading' = IF Live(owner) THEN FALSE ELSE loading
    /\ isStreaming' = IF Live(owner) THEN FALSE ELSE isStreaming
    /\ streamStatus' = IF Live(owner) THEN "" ELSE streamStatus

\* catch (error) { alert('Failed to generate questions: ' + error.message) }
StreamFailed(s) ==
    /\ alerts' = Append(alerts, [sess |-> s, kind |-> "stream",
                                 text |-> "Failed to generate questions"])
    /\ sessions' = [sessions EXCEPT ![s] = Returned(sessions[s], "failed")]
    /\ Finally(sessions[s].inst)

\* await fetch(...) resolves: fetch resolves for every status; the code does not
\* look at response.ok and reads the body whatever the status (Home.jsx:49-59).
FetchResolve(s, ok, body) ==
    /\ sessions[s].kind = "stream"
    /\ sessions[s].pc = "fetching"
    /\ sessions' = [sessions EXCEPT ![s].pc = "reading", ![s].ok = ok, ![s].rest = body]
    /\ UNCHANGED <<app, mounted, inst, jobDescription, loading, isStreaming, questions,
                   selectedCategory, streamStatus, timers, alerts, clicks>>
    /\ UNCHANGED aside

\* await fetch(...) rejects: a network error.
FetchReject(s) ==
    /\ sessions[s].kind = "stream"
    /\ sessions[s].pc = "fetching"
    /\ StreamFailed(s)
    /\ UNCHANGED <<app, mounted, inst, jobDescription, questions, selectedCategory,
                   timers, clicks>>
    /\ UNCHANGED aside

\* Observation: a call, with whether the instance that owns the session was mounted
\* when it was made and how many sessions had been started by then.
Observed(calls, owner) ==
    [i \in DOMAIN calls |->
        [event  |-> calls[i].event,
         data   |-> calls[i].data,
         line   |-> calls[i].line,
         live   |-> Live(owner),
         during |-> Len(sessions)]]

\* One turn of the while loop: reader.read() delivers the next n symbols of the body
\* (Home.jsx:61-83).
ReadChunk(s, n) ==
    /\ sessions[s].kind = "stream"
    /\ sessions[s].pc = "reading"
    /\ n \in 1..Len(sessions[s].rest)
    /\ LET ses   == sessions[s]
           chunk == SubSeq(ses.rest, 1, n)
           fr    == FrameChunk(ses.buffer, chunk)
           calls == ChunkCalls(fr.lines, Len(ses.lines))
           ui    == ApplyCalls(UI, s, ses.inst, calls)
       IN  /\ sessions' = [sessions EXCEPT ![s] =
                              [ses EXCEPT !.rest     = SubSeq(ses.rest, n + 1, Len(ses.rest)),
                                          !.buffer   = fr.buffer,
                                          !.consumed = @ \o chunk,
                                          !.lines    = @ \o fr.lines,
                                          !.calls    = @ \o Observed(calls, ses.inst)]]
           /\ questions' = IF Live(ses.inst) THEN ui.questions ELSE questions
           /\ streamStatus' = IF Live(ses.inst) THEN ui.streamStatus ELSE streamStatus
           /\ selectedCategory' =
                  IF Live(ses.inst) THEN ui.selectedCategory ELSE selectedCategory
           /\ timers' = ui.timers
           /\ alerts' = ui.alerts
    /\ UNCHANGED <<app, mounted, inst, jobDescription, loading, isStreaming, clicks>>
    /\ UNCHANGED aside

\* Faulty variant of ReadDone: the flags are cleared on failure only, not in a finally block.
ReadDoneKeepsLoading(s) ==
    /\ sessions[s].kind = "stream"
    /\ sessions[s].pc = "reading"
    /\ sessions[s].rest = <<>>
    /\ sessions' = [sessions EXCEPT ![s] = Returned(sessions[s], "done")]
    /\ UNCHANGED <<app, mounted, inst, jobDescription, loading, isStreaming, streamStatus,
                   questions, selectedCategory, timers, alerts, clicks>>
    /\ UNCHANGED aside

\* reader.read() reports done: break, then finally.
ReadDone(s) ==
    /\ sessions[s].kind = "stream"
    /\ sessions[s].pc = "reading"
    /\ sessions[s].rest = <<>>
    /\ sessions' = [sessions EXCEPT ![s] = Returned(sessions[s], "done")]
    /\ Finally(sessions[s].inst)
    /\ UNCHANGED <<app, mounted, inst, jobDescription, questions, selectedCategory,
                   timers, alerts, clicks>>
    /\ UNCHANGED aside

\* Faulty variant of ReadFail: the catch block also clears the result set.
ReadFailClears(s) ==
    /\ sessions[s].kind = "stream"
    /\ sessions[s].pc = "reading"
    /\ StreamFailed(s)
    /\ questions' = EmptyQuestions
    /\ UNCHANGED <<app, mounted, inst, jobDescription, selectedCategory, timers, clicks>>
    /\ UNCHANGED aside

\* reader.read() rejects: the connection dropped.
ReadFail(s) ==
    /\ sessions[s].kind = "stream"
    /\ sessions[s].pc = "reading"
    /\ StreamFailed(s)
    /\ UNCHANGED <<app, mounted, inst, jobDescription, questions, selectedCategory,
                   timers, clicks>>
    /\ UNCHANGED aside

\* setTimeout(() => setStreamStatus(''), 2000) fires; equal delays fire in order.
StatusTimeout ==
    /\ timers # <<>>
    /\ timers' = Tail(timers)
    /\ streamStatus' = IF Live(Head(timers)) THEN "" ELSE streamStatus
    /\ UNCHANGED <<app, mounted, inst, jobDescription, loading, isStreaming, questions,
                   selectedCategory, sessions, alerts, clicks>>
    /\ UNCHANGED aside

\* The router leaves "/" (App.jsx:38-39): Home unmounts and its state is gone.
\* Nothing aborts the fetch or the reader.
Unmount ==
    /\ app = "web"
    /\ mounted
    /\ mounted' = FALSE
    /\ jobDescription' = <<>>
    /\ loading' = FALSE
    /\ isStreaming' = FALSE
    /\ questions' = NullQuestions
    /\ selectedCategory' = "technical"
    /\ streamStatus' = ""
    /\ UNCHANGED <<app, inst, sessions, timers, alerts, clicks>>
    /\ loadingMore' = FALSE
    /\ savingIds' = {}
    /\ selectedQuestion' = "null"
    /\ modalOpen' = FALSE
    /\ UNCHANGED <<extracting, requests>>

\* The router returns to "/": a new instance of Home with the useState initial values.
Mount ==
    /\ app = "web"
    /\ ~mounted
    /\ inst < MaxMounts
    /\ mounted' = TRUE
    /\ inst' = inst + 1
    /\ UNCHANGED <<app, jobDescription, loading, isStreaming, questions, selectedCategory,
                   streamStatus, sessions, timers, alerts, clicks>>
    /\ UNCHANGED aside

\* generateQuestions up to its await (index.tsx:153-161).
GenerateQuestions ==
    /\ app = "native"
    /\ ~loading
    /\ clicks < MaxClicks
    /\ clicks' = clicks + 1
    /\ IF IsBlank(jobDescription)
       THEN /\ alerts' = Append(alerts, [sess |-> 0, kind |-> "validation",
                                         text |-> "Please enter a job description"])
            /\ UNCHANGED <<loading, questions, sessions>>
       ELSE /\ loading' = TRUE
            /\ questions' = NullQuestions
            /\ sessions' = Append(sessions, NewSession("oneshot", "fetching", <<>>))
            /\ UNCHANGED alerts
    /\ UNCHANGED <<app, mounted, inst, jobDescription, isStreaming, selectedCategory,
                   streamStatus, timers>>
    /\ UNCHANGED aside

\* Faulty variant of GenerateResolve: only the category lists are replaced.
GenerateResolvePartial(s, data) ==
    /\ sessions[s].kind = "oneshot"
    /\ sessions[s].pc = "fetching"
    /\ sessions' = [sessions EXCEPT ![s].pc = "done"]
    /\ questions' = [data EXCEPT !.job_analysis = questions.job_analysis]
    /\ selectedCategory' = "technical"
    /\ loading' = FALSE
    /\ UNCHANGED <<app, mounted, inst, jobDescription, isStreaming, streamStatus,
                   timers, alerts, clicks>>
    /\ UNCHANGED aside

\* axios.post resolves (index.tsx:162-163, 166-168).
GenerateResolve(s, data) ==
    /\ sessions[s].kind = "oneshot"
    /\ sessions[s].pc = "fetching"
    /\ sessions' = [sessions EXCEPT ![s].pc = "done"]
    /\ questions' = data
    /\ selectedCategory' = "technical"
    /\ loading' = FALSE
    /\ UNCHANGED <<app, mounted, inst, jobDescription, isStreaming, streamStatus,
                   timers, alerts, clicks>>
    /\ UNCHANGED aside

\* axios.post rejects: a network error or a non-success status (index.tsx:164-168).
GenerateReject(s) ==
    /\ sessions[s].kind = "oneshot"
    /\ sessions[s].pc = "fetching"
    /\ sessions' = [sessions EXCEPT ![s].pc = "failed", ![s].ok = FALSE]
    /\ alerts' = Append(alerts, [sess |-> s, kind |-> "oneshot", text |-> "Failed"])
    /\ loading' = FALSE
    /\ UNCHANGED <<app, mounted, inst, jobDescription, isStreaming, questions,
                   selectedCategory, streamStatus, timers, clicks>>
    /\ UNCHANGED aside

Next ==
    \/ \E v \in JobDescriptions : SetJobDescription(v)
    \/ GenerateQuestionsStream
    \/ \E s \in DOMAIN sessions : \E body \in Responses : FetchResolve(s, TRUE, body)
    \/ \E s \in DOMAIN sessions : FetchResolve(s, FALSE, ErrorBody)
    \/ \E s \in DOMAIN sessions : FetchReject(s)
    \/ \E s \in DOMAIN sessions : \E n \in 1..Len(sessions[s].rest) : ReadChunk(s, n)
    \/ \E s \in DOMAIN sessions : ReadDone(s)
    \/ \E s \in DOMAIN sessions : ReadFail(s)
    \/ StatusTimeout
    \/ Unmount
    \/ Mount
    \/ GenerateQuestions
    \/ \E s \in DOMAIN sessions : \E data \in NativeResponses : GenerateResolve(s, data)
    \/ \E s \in DOMAIN sessions : GenerateReject(s)

Spec == Init /\ [][Next]_vars

(***************************************************************************)
(* SpecStream: one streaming session of the web page from the moment the   *)
(* fetch has resolved, with any body of Texts and any split into chunks.   *)
(***************************************************************************)
InitStream ==
    /\ app = "web"
    /\ mounted = TRUE
    /\ inst = 1
    /\ jobDescription = <<"a">>
    /\ loading = TRUE
    /\ isStreaming = TRUE
    /\ questions = EmptyQuestions
    /\ selectedCategory = "behavioral"
    /\ streamStatus = "Starting..."
    /\ \E body \in Texts :
          sessions = <<[NewSession("stream", "reading", body) EXCEPT !.jd = <<"a">>]>>
    /\ timers = <<>>
    /\ alerts = <<>>
    /\ clicks = 1
    /\ loadingMore = FALSE
    /\ extracting = FALSE
    /\ requests = <<>>
    /\ savingIds = {}
    /\ selectedQuestion = "null"
    /\ modalOpen = FALSE

NextStream ==
    \/ \E n \in 1..Len(sessions[1].rest) : ReadChunk(1, n)
    \/ ReadDone(1)
    \/ ReadFail(1)
    \/ StatusTimeout

SpecStream == InitStream /\ [][NextStream]_vars


(***************************************************************************)
(* The one-shot operations: the category tabs and load more of both        *)
(* clients, text extraction of the native screen, and the earlier version  *)
(* of HomeScreen that index.tsx still holds (index.tsx:622), here "legacy".*)
(***************************************************************************)
\* The tabs of each screen (Home.jsx:181-186, index.tsx:233-238, index.tsx:688-692).
Tabs(a) == IF a = "legacy" THEN {"technical", "behavioral", "situational"} ELSE Categories

\* questions[selectedCategory] || []   (Home.jsx:188, index.tsx:240)
CurrentQuestions ==
    IF questions.null THEN <<>>
    ELSE IF selectedCategory \in DOMAIN questions.cats
         THEN questions.cats[selectedCategory] ELSE <<>>

\* questions ? questions[selectedCategory] : []   (index.tsx:694): no fallback for an absent key.
\* The value is a list or undefined.
LegacyCurrentQuestions ==
    IF questions.null THEN [undefined |-> FALSE, list |-> <<>>]
    ELSE IF selectedCategory \in DOMAIN questions.cats
         THEN [undefined |-> FALSE, list |-> questions.cats[selectedCategory]]
         ELSE [undefined |-> TRUE, list |-> <<>>]

\* The badge of a tab: Array.isArray(list) ? list.length : 0   (index.tsx:320-321).
TabCount(c) == IF c \in DOMAIN questions.cats THEN Len(questions.cats[c]) ELSE 0

\* The questions section is on screen (Home.jsx:259, index.tsx:314, index.tsx:752).
ResultsShown ==
    /\ mounted
    /\ ~questions.null
    /\ IF app = "web"
       THEN \E c \in Categories : questions.cats[c] # <<>>
       ELSE ~loading

\* currentQuestions.map(...) of the legacy screen on undefined (index.tsx:806): the
\* render throws and the screen is gone.
RenderFails == app = "legacy" /\ ResultsShown /\ LegacyCurrentQuestions.undefined

\* onPress / onClick of a tab.
SelectCategory(c) ==
    /\ ResultsShown
    /\ ~RenderFails
    /\ c \in Tabs(app)
    /\ c # selectedCategory
    /\ selectedCategory' = c
    /\ UNCHANGED <<app, mounted, inst, jobDescription, loading, isStreaming, questions,
                   streamStatus, sessions, timers, alerts, clicks, aside>>

\* What a request was answered: nothing yet, an error, or a body whose member
\* (questions, extracted_text) is present or not.
Answer(outcome, present, value) == [outcome |-> outcome, present |-> present, value |-> value]
NoAnswer == Answer("none", FALSE, <<>>)
Failure  == Answer("error", FALSE, <<>>)

NewRequest(kind, pc, arg) ==
    [kind   |-> kind,    \* "more" or "extract"
     pc     |-> pc,      \* "pending", then how it ended
     arg    |-> arg,     \* the category asked for / which extraction endpoint / the question saved
     answer |-> NoAnswer, \* observation: what the backend answered
     during |-> IF kind = "more" THEN Len(sessions) ELSE 0]
                         \* observation: the generations started before a load more

\* loadMoreQuestions up to its await (Home.jsx:122-135, index.tsx:171-184).  The button
\* is shown under a non-empty list (web: not while streaming) and is disabled while
\* loadingMore.
LoadMoreQuestions ==
    /\ app \in {"web", "native"}
    /\ ResultsShown
    /\ CurrentQuestions # <<>>
    /\ ~isStreaming
    /\ ~loadingMore
    /\ Len(requests) < MaxRequests
    /\ IF questions.job_analysis = "null"
       THEN /\ requests' = Append(requests, NewRequest("more", "returned", selectedCategory))
            /\ UNCHANGED loadingMore
       ELSE /\ requests' = Append(requests, NewRequest("more", "pending", selectedCategory))
            /\ loadingMore' = TRUE
    /\ UNCHANGED <<app, mounted, inst, jobDescription, loading, isStreaming, questions,
                   selectedCategory, streamStatus, sessions, timers, alerts, clicks,
                   extracting>>
    /\ UNCHANGED favs

\* What POST /api/load-more answers in response.data.questions: a list, or no such member.
MoreResponses ==
    { Answer("ok", TRUE, <<"t2", "t1">>), Answer("ok", TRUE, <<>>), Answer("ok", FALSE, <<>>) }

\* response.data.questions?.length > 0
HasQuestions(answer) == answer.present /\ Len(answer.value) > 0

\* prev => ({...prev, [category]: [...(prev[category] || []), ...list]}); the native
\* screen returns prev when it is null (index.tsx:187).  On the web page the result set
\* is not null while a load more of the mounted instance is pending.
AppendAll(prev, category, list) ==
    IF prev.null THEN prev
    ELSE [prev EXCEPT !.cats =
             IF category \in DOMAIN @
             THEN [@ EXCEPT ![category] = @ \o list]
             ELSE (category :> list) @@ @]

\* Faulty variant of LoadMoreResolve: an empty answer is appended like any other and
\* nothing is shown.
LoadMoreResolveNoNotice(r, answer) ==
    /\ requests[r].kind = "more"
    /\ requests[r].pc = "pending"
    /\ requests' = [requests EXCEPT ![r].pc = IF HasQuestions(answer) THEN "appended" ELSE "empty",
                                     ![r].answer = answer]
    /\ questions' = IF HasQuestions(answer)
                    THEN AppendAll(questions, requests[r].arg, answer.value) ELSE questions
    /\ loadingMore' = FALSE
    /\ UNCHANGED <<app, mounted, inst, jobDescription, loading, isStreaming,
                   selectedCategory, streamStatus, sessions, timers, alerts, clicks,
                   extracting>>
    /\ UNCHANGED favs

\* axios.post of load more resolves (Home.jsx:136-148, index.tsx:185-198).
LoadMoreResolve(r, answer) ==
    /\ requests[r].kind = "more"
    /\ requests[r].pc = "pending"
    /\ IF HasQuestions(answer)
       THEN /\ requests' = [requests EXCEPT ![r].pc = "appended", ![r].answer = answer]
            /\ questions' = AppendAll(questions, requests[r].arg, answer.value)
            /\ UNCHANGED alerts
       ELSE /\ requests' = [requests EXCEPT ![r].pc = "empty", ![r].answer = answer]
            /\ alerts' = Append(alerts, [sess |-> r, kind |-> "more",
                                         text |-> "No more unique questions"])
            /\ UNCHANGED questions
    /\ loadingMore' = FALSE
    /\ UNCHANGED <<app, mounted, inst, jobDescription, loading, isStreaming,
                   selectedCategory, streamStatus, sessions, timers, clicks, extracting>>
    /\ UNCHANGED favs

\* axios.post of load more rejects (Home.jsx:144-148, index.tsx:194-198).
LoadMoreReject(r) ==
    /\ requests[r].kind = "more"
    /\ requests[r].pc = "pending"
    /\ requests' = [requests EXCEPT ![r].pc = "failed", ![r].answer = Failure]
    /\ alerts' = Append(alerts, [sess |-> r, kind |-> "more",
                                 text |-> "Failed to load more"])
    /\ loadingMore' = FALSE
    /\ UNCHANGED <<app, mounted, inst, jobDescription, loading, isStreaming, questions,
                   selectedCategory, streamStatus, sessions, timers, clicks, extracting>>
    /\ UNCHANGED favs

\* extractTextFromFile / extractTextFromBase64 up to their await (index.tsx:119-124,
\* 136-141).  The upload button is disabled while extracting.
ExtractText(path) ==
    /\ app = "native"
    /\ ~extracting
    /\ Len(requests) < MaxRequests
    /\ extracting' = TRUE
    /\ requests' = Append(requests, NewRequest("extract", "pending", path))
    /\ UNCHANGED <<app, mounted, inst, jobDescription, loading, isStreaming, questions,
                   selectedCategory, streamStatus, sessions, timers, alerts, clicks,
                   loadingMore>>
    /\ UNCHANGED favs

\* response.data.extracted_text: a text, or the empty string (falsy).
ExtractedTexts == { <<>>, <<"b">> }

\* axios.post of an extraction resolves (index.tsx:125-128/142-145, finally).
ExtractResolve(r, text) ==
    /\ requests[r].kind = "extract"
    /\ requests[r].pc = "pending"
    /\ IF text # <<>>
       THEN /\ requests' = [requests EXCEPT ![r].pc = "filled",
                                          ![r].answer = Answer("ok", TRUE, text)]
            /\ jobDescription' = text
            /\ alerts' = Append(alerts, [sess |-> r, kind |-> "extract",
                                         text |-> "Text extracted!"])
       ELSE /\ requests' = [requests EXCEPT ![r].pc = "blank",
                                          ![r].answer = Answer("ok", TRUE, text)]
            /\ UNCHANGED <<jobDescription, alerts>>
    /\ extracting' = FALSE
    /\ UNCHANGED <<app, mounted, inst, loading, isStreaming, questions, selectedCategory,
                   streamStatus, sessions, timers, clicks, loadingMore>>
    /\ UNCHANGED favs

\* Faulty variant of ExtractReject: the failure handler also empties the input.
ExtractRejectClearsInput(r) ==
    /\ requests[r].kind = "extract"
    /\ requests[r].pc = "pending"
    /\ requests' = [requests EXCEPT ![r].pc = "failed", ![r].answer = Failure]
    /\ alerts' = Append(alerts, [sess |-> r, kind |-> "extract", text |-> "Failed"])
    /\ jobDescription' = <<>>
    /\ extracting' = FALSE
    /\ UNCHANGED <<app, mounted, inst, loading, isStreaming, questions,
                   selectedCategory, streamStatus, sessions, timers, clicks, loadingMore>>
    /\ UNCHANGED favs

\* axios.post of an extraction rejects (index.tsx:129-133/146-150).
ExtractReject(r) ==
    /\ requests[r].kind = "extract"
    /\ requests[r].pc = "pending"
    /\ requests' = [requests EXCEPT ![r].pc = "failed", ![r].answer = Failure]
    /\ alerts' = Append(alerts, [sess |-> r, kind |-> "extract", text |-> "Failed"])
    /\ extracting' = FALSE
    /\ UNCHANGED <<app, mounted, inst, jobDescription, loading, isStreaming, questions,
                   selectedCategory, streamStatus, sessions, timers, clicks, loadingMore>>
    /\ UNCHANGED favs

\* generateQuestions of the legacy screen up to its await (index.tsx:631-644).
LegacyGenerateQuestions ==
    /\ app = "legacy"
    /\ ~RenderFails
    /\ ~loading
    /\ clicks < MaxClicks
    /\ clicks' = clicks + 1
    /\ IF IsBlank(jobDescription)
       THEN /\ alerts' = Append(alerts, [sess |-> 0, kind |-> "validation",
                                         text |-> "Please enter a job description or role"])
            /\ UNCHANGED <<loading, questions, sessions>>
       ELSE /\ loading' = TRUE
            /\ questions' = NullQuestions
            /\ sessions' = Append(sessions, NewSession("legacy", "fetching", <<>>))
            /\ UNCHANGED alerts
    /\ UNCHANGED <<app, mounted, inst, jobDescription, isStreaming, selectedCategory,
                   streamStatus, timers, aside>>

\* axios.post resolves (index.tsx:645, 649-651): the selected category is kept.
LegacyGenerateResolve(s, data) ==
    /\ sessions[s].kind = "legacy"
    /\ sessions[s].pc = "fetching"
    /\ sessions' = [sessions EXCEPT ![s].pc = "done"]
    /\ questions' = data
    /\ loading' = FALSE
    /\ UNCHANGED <<app, mounted, inst, jobDescription, isStreaming, selectedCategory,
                   streamStatus, timers, alerts, clicks, aside>>

\* axios.post rejects (index.tsx:646-651).
LegacyGenerateReject(s) ==
    /\ sessions[s].kind = "legacy"
    /\ sessions[s].pc = "fetching"
    /\ sessions' = [sessions EXCEPT ![s].pc = "failed", ![s].ok = FALSE]
    /\ alerts' = Append(alerts, [sess |-> s, kind |-> "legacy",
                                 text |-> "Failed to generate questions"])
    /\ loading' = FALSE
    /\ UNCHANGED <<app, mounted, inst, jobDescription, isStreaming, questions,
                   selectedCategory, streamStatus, timers, clicks, aside>>

\* The answers of POST /api/generate-questions to the legacy screen: those the native
\* screen gets, and one of a deployment without the situational and company_specific
\* categories.
OneShotResponses ==
    NativeResponses
    \cup { [null |-> FALSE,
            cats |-> [c \in {"technical", "behavioral"} |->
                         IF c = "technical" THEN <<"t1">> ELSE <<"b1">>],
            job_analysis |-> "ja"] }

\* The result sets a finished stream leaves on the web page, with and without a job analysis.
WebResults ==
    { [EmptyQuestions EXCEPT !.cats = AppendTo(AppendTo(@, "technical", "t1"),
                                               "behavioral", "b1"),
                             !.job_analysis = ja] : ja \in {"ja", "null"} }

(***************************************************************************)
(* SpecOneShot: the one-shot operations of the three screens, from the     *)
(* moment a job description has been typed.  The native and the legacy     *)
(* screen have generated nothing yet; the web page has the result set of a *)
(* finished stream on display.                                             *)
(***************************************************************************)
InitOneShot ==
    /\ app \in {"web", "native", "legacy"}
    /\ mounted = TRUE
    /\ inst = 1
    /\ jobDescription = <<"a">>
    /\ loading = FALSE
    /\ isStreaming = FALSE
    /\ IF app = "web" THEN questions \in WebResults ELSE questions = NullQuestions
    /\ selectedCategory = "technical"
    /\ streamStatus = ""
    /\ sessions = <<>>
    /\ timers = <<>>
    /\ alerts = <<>>
    /\ clicks = IF app = "web" THEN 1 ELSE 0
    /\ loadingMore = FALSE
    /\ extracting = FALSE
    /\ requests = <<>>
    /\ savingIds = {}
    /\ selectedQuestion = "null"
    /\ modalOpen = FALSE

NextOneShot ==
    \/ GenerateQuestions
    \/ \E s \in DOMAIN sessions : \E data \in NativeResponses : GenerateResolve(s, data)
    \/ \E s \in DOMAIN sessions : GenerateReject(s)
    \/ LegacyGenerateQuestions
    \/ \E s \in DOMAIN sessions : \E data \in OneShotResponses : LegacyGenerateResolve(s, data)
    \/ \E s \in DOMAIN sessions : LegacyGenerateReject(s)
    \/ \E c \in Categories : SelectCategory(c)
    \/ LoadMoreQuestions
    \/ \E r \in DOMAIN requests : \E answer \in MoreResponses : LoadMoreResolve(r, answer)
    \/ \E r \in DOMAIN requests : LoadMoreReject(r)
    \/ \E path \in {"file", "base64"} : ExtractText(path)
    \/ \E r \in DOMAIN requests : \E text \in ExtractedTexts : ExtractResolve(r, text)
    \/ \E r \in DOMAIN requests : ExtractReject(r)

SpecOneShot == InitOneShot /\ [][NextOneShot]_vars

(***************************************************************************)
(* Helpers of the properties.                                              *)
(***************************************************************************)
IsEventLine(line) == StartsWith(line, EventPrefix)
IsDataLine(line)  == StartsWith(line, DataPrefix)

Streams == { s \in DOMAIN sessions : sessions[s].kind = "stream" }
Reading == { s \in Streams : sessions[s].pc = "reading" }

\* The calls as the loop made them, without the observations added to them.
Plain(calls) ==
    [i \in DOMAIN calls |->
        [event |-> calls[i].event, data |-> calls[i].data, line |-> calls[i].line]]

\* The (event name, payload) pairs of a sequence of calls.
Pairs(calls) == [i \in DOMAIN calls |-> <<calls[i].event, calls[i].data>>]

CountNL(text) == Cardinality({ i \in DOMAIN text : text[i] = NL })

CallsOf(calls, name) == SelectSeq(calls, LAMBDA c : c.event = name)

\* The payloads of the question calls of one category, in the order of the calls.
RECURSIVE QuestionsOf(_, _)
QuestionsOf(calls, c) ==
    IF calls = <<>> THEN <<>>
    ELSE (IF Head(calls).event = <<"question">> /\ Category(Head(calls).data) = c
          THEN <<Head(calls).data>> ELSE <<>>) \o QuestionsOf(Tail(calls), c)

(***************************************************************************)
(* C1 (SpecStream).  Chunk-boundary invariance of the Line Framer: however *)
(* the text delivered so far was split into chunks, the lines framed are   *)
(* the newline-terminated lines of that text, once each and in order, the  *)
(* same as framing the whole text at once; the buffer is the unterminated  *)
(* rest, and no framed line holds a newline (none is split or merged).     *)
(***************************************************************************)
C1_ChunkBoundaryInvariance ==
    \A s \in Reading :
        LET ses == sessions[s] IN
        /\ ses.lines = FrameChunk(<<>>, ses.consumed).lines
        /\ ses.buffer = FrameChunk(<<>>, ses.consumed).buffer
        /\ Flatten(ses.lines) \o ses.buffer = ses.consumed
        /\ Len(ses.lines) = CountNL(ses.consumed)
        /\ \A i \in DOMAIN ses.lines : CountNL(ses.lines[i]) = 0
        /\ CountNL(ses.buffer) = 0

\* Two lines or more were framed over several chunks (one chunk would have made
\* other calls), and a chunk ended inside a line that is still pending.
C1_Witness ==
    \E s \in Reading :
        /\ Len(sessions[s].lines) >= 2
        /\ Plain(sessions[s].calls) # ChunkCalls(sessions[s].lines, 0)
        /\ sessions[s].buffer # <<>>
        /\ sessions[s].rest # <<>>

(***************************************************************************)
(* C2 (SpecStream).  The frame grammar is applied to the whole sequence of *)
(* lines of a session, independent of chunking: the calls of               *)
(* handleStreamEvent made so far are those the grammar makes on all lines  *)
(* framed so far taken as one sequence.                                    *)
(***************************************************************************)
C2_GrammarIndependentOfChunking ==
    \A s \in Reading :
        Pairs(sessions[s].calls) = Pairs(DispatchLines(sessions[s].lines, Null, 0, <<>>))

(***************************************************************************)
(* C4 (SpecStream).  When reader.read() rejects after k >= 1 question      *)
(* events were applied and before any complete event, the session has      *)
(* ended as failed with one error shown, it is no longer loading or        *)
(* streaming, and every category still holds the questions applied to it,  *)
(* in order.                                                               *)
(***************************************************************************)
FailedAfterQuestions(s) ==
    /\ sessions[s].pc = "failed"
    /\ Len(CallsOf(sessions[s].calls, <<"question">>)) >= 1
    /\ CallsOf(sessions[s].calls, <<"complete">>) = <<>>

C4_PartialResultsPreserved ==
    \A s \in Streams :
        FailedAfterQuestions(s) =>
            /\ Len(SelectSeq(alerts, LAMBDA a : a.sess = s /\ a.kind = "stream")) = 1
            /\ ~loading
            /\ ~isStreaming
            /\ ~questions.null
            /\ \A c \in DOMAIN questions.cats :
                   questions.cats[c] = QuestionsOf(sessions[s].calls, c)
            /\ \A i \in DOMAIN sessions[s].calls :
                   sessions[s].calls[i].event = <<"question">> =>
                       Category(sessions[s].calls[i].data) \in DOMAIN questions.cats

C4_Witness ==
    \E s \in Streams :
        /\ FailedAfterQuestions(s)
        /\ Len(questions.cats["technical"]) + Len(questions.cats["behavioral"]) >= 2


(***************************************************************************)
(* C9 (SpecStream).  A data line with no pending event name is ignored.    *)
(* Every call of handleStreamEvent stems from a data line that follows its *)
(* event line with no other event or data line between them, a line makes  *)
(* at most one call, and the result set, the status message and the error  *)
(* alerts are what the calls made so far produce: a data line without a    *)
(* pending name makes no call and changes nothing.                         *)
(***************************************************************************)
StartUI == [questions        |-> EmptyQuestions,
            streamStatus     |-> "Starting...",
            selectedCategory |-> "behavioral",
            timers           |-> <<>>,
            alerts           |-> <<>>]

\* No event line before line i whose name is still pending at line i.
NoPendingAt(L, i) ==
    ~ \E j \in 1..(i - 1) :
          /\ IsEventLine(L[j])
          /\ \A k \in (j + 1)..(i - 1) : ~IsDataLine(L[k])

C9_OrphanDataIgnored ==
    \A s \in Reading :
        LET L     == sessions[s].lines
            calls == sessions[s].calls
            fold  == ApplyCalls(StartUI, s, sessions[s].inst, calls)
        IN  /\ \A i \in DOMAIN calls :
                   /\ calls[i].line \in DOMAIN L
                   /\ IsDataLine(L[calls[i].line])
                   /\ calls[i].event # <<>>
                   /\ \E j \in 1..(calls[i].line - 1) :
                          /\ IsEventLine(L[j])
                          /\ Slice(L[j], Len(EventPrefix)) = calls[i].event
                          /\ \A k \in (j + 1)..(calls[i].line - 1) :
                                 ~IsEventLine(L[k]) /\ ~IsDataLine(L[k])
            /\ \A i, j \in DOMAIN calls : i < j => calls[i].line < calls[j].line
            /\ questions = fold.questions
            /\ streamStatus \in {fold.streamStatus, ""}
            /\ alerts = fold.alerts

\* A data line with a well-formed payload and no pending event name was framed and
\* made no call, while another line of the session did.
C9_Witness ==
    \E s \in Reading :
        \E i \in DOMAIN sessions[s].lines :
            /\ IsDataLine(sessions[s].lines[i])
            /\ JSONParse(Slice(sessions[s].lines[i], Len(DataPrefix))) # SyntaxError
            /\ NoPendingAt(sessions[s].lines, i)
            /\ \A c \in DOMAIN sessions[s].calls : sessions[s].calls[c].line # i
            /\ sessions[s].calls # <<>>

(***************************************************************************)
(* C10 (SpecStream).  A data line whose payload is not valid JSON is       *)
(* discarded and the session goes on.  In every turn of the read loop, for *)
(* every malformed data line of the batch: the line makes no call, the     *)
(* calls of the batch are those of the lines before it followed by those   *)
(* of the lines after it processed with no pending event name (the name is *)
(* cleared, and the later frames are applied as they are without the       *)
(* malformed one), the session is still reading and no failure is          *)
(* reported.                                                               *)
(***************************************************************************)
IsMalformed(line) ==
    IsDataLine(line) /\ JSONParse(Slice(line, Len(DataPrefix))) = SyntaxError

C10_MalformedFrameSkipped ==
    [][ \A s \in DOMAIN sessions :
           ( /\ sessions[s].pc = "reading"
             /\ Len(sessions'[s].consumed) > Len(sessions[s].consumed) )
           =>
           LET base  == Len(sessions[s].lines)
               batch == SubSeq(sessions'[s].lines, base + 1, Len(sessions'[s].lines))
               made  == SubSeq(sessions'[s].calls, Len(sessions[s].calls) + 1,
                               Len(sessions'[s].calls))
           IN  \A i \in DOMAIN batch :
                   IsMalformed(batch[i]) =>
                       /\ \A c \in DOMAIN made : made[c].line # base + i
                       /\ Pairs(made) =
                              Pairs(ChunkCalls(SubSeq(batch, 1, i - 1), 0))
                              \o Pairs(ChunkCalls(SubSeq(batch, i + 1, Len(batch)), 0))
                       /\ sessions'[s].pc = "reading"
                       /\ alerts' = ApplyCalls(UI, s, sessions[s].inst, made).alerts
                       /\ questions' = ApplyCalls(UI, s, sessions[s].inst, made).questions
                       /\ loading' = loading
      ]_vars

\* A frame with a malformed payload was framed, and a frame after it was applied.
C10_Witness ==
    \E s \in Reading :
        \E i \in DOMAIN sessions[s].lines :
            /\ i > 1
            /\ IsMalformed(sessions[s].lines[i])
            /\ IsEventLine(sessions[s].lines[i - 1])
            /\ \E c \in DOMAIN sessions[s].calls : sessions[s].calls[c].line > i


(***************************************************************************)
(* C3 (Spec).  A new streaming session starts from the empty result set,   *)
(* and nothing a previous session's transport delivers afterwards reaches  *)
(* the state: while the page is shown, the result set is null when the     *)
(* mounted instance has started no session, and otherwise it is the empty  *)
(* result set with the calls of the latest session of that instance        *)
(* applied to it and nothing else; the status message is empty, the        *)
(* 'Starting...' of the start, or one set by a call of that session.       *)
(***************************************************************************)
Mine == { s \in Streams : sessions[s].inst = inst }

Latest(S) == CHOOSE s \in S : \A t \in S : t <= s

StatusesOf(calls) ==
    { Message(calls[i].data) : i \in { k \in DOMAIN calls : calls[k].event = <<"status">> } }
    \cup { "Complete!" : i \in { k \in DOMAIN calls : calls[k].event = <<"complete">> } }

C3_NewSessionStartsClean ==
    (app = "web" /\ mounted) =>
        IF Mine = {} THEN questions = NullQuestions /\ streamStatus = ""
        ELSE LET cur == Latest(Mine) IN
             /\ questions =
                    ApplyCalls(StartUI, cur, inst, sessions[cur].calls).questions
             /\ streamStatus \in {"", "Starting..."} \cup StatusesOf(sessions[cur].calls)

\* A newer session runs on the mounted instance, and an older session applied a
\* question event after that session had started; the result set shows none of it.
C3_Witness ==
    /\ app = "web"
    /\ mounted
    /\ \E s1, s2 \in Streams :
          /\ s1 < s2
          /\ sessions[s2].inst = inst
          /\ sessions[s2].pc = "reading"
          /\ \E i \in DOMAIN sessions[s1].calls :
                 /\ sessions[s1].calls[i].during >= s2
                 /\ sessions[s1].calls[i].event = <<"question">>
          /\ \A c \in DOMAIN questions.cats : questions.cats[c] = <<>>

(***************************************************************************)
(* C5 (Spec).  A transport-level failure of the streaming request, a       *)
(* response with a non-success status included, ends the session as failed *)
(* with exactly one error shown for it, and no request is issued that the  *)
(* user did not ask for.                                                   *)
(***************************************************************************)
StreamAlerts(s) == SelectSeq(alerts, LAMBDA a : a.sess = s /\ a.kind = "stream")

C5_TransportFailureReported ==
    /\ Len(sessions) <= clicks
    /\ \A s \in Streams :
           ( /\ sessions[s].pc \in {"done", "failed"}
             /\ (~sessions[s].ok \/ sessions[s].pc = "failed") )
           => (sessions[s].pc = "failed" /\ Len(StreamAlerts(s)) = 1)

(***************************************************************************)
(* C6 (Spec), as stated.  The one-shot generateQuestions replaces the      *)
(* whole result set when the request succeeds, and when it fails the       *)
(* result set shown before the request is still shown and an error is      *)
(* reported.                                                               *)
(***************************************************************************)
Oneshots == { s \in DOMAIN sessions : sessions[s].kind = "oneshot" }

OneshotAlerts(s) == SelectSeq(alerts, LAMBDA a : a.sess = s /\ a.kind = "oneshot")

C6_FailureKeepsPrevious ==
    \A s \in Oneshots :
        s = Len(sessions) =>
            /\ sessions[s].pc = "done" => questions \in NativeResponses
            /\ sessions[s].pc = "failed" =>
                   (questions = sessions[s].prev /\ Len(OneshotAlerts(s)) = 1)

(***************************************************************************)
(* C6 (Spec), amended.  The one-shot generateQuestions clears the result   *)
(* set when the request starts; when the request succeeds the whole result *)
(* set is the response, and when it fails the result set stays cleared     *)
(* (null), one error is reported, and loading is false again.              *)
(***************************************************************************)
C6_FailureLeavesCleared ==
    \A s \in Oneshots :
        s = Len(sessions) =>
            /\ sessions[s].pc = "fetching" => (loading /\ questions = NullQuestions)
            /\ sessions[s].pc = "done" => (~loading /\ questions \in NativeResponses)
            /\ sessions[s].pc = "failed" =>
                   (~loading /\ questions = NullQuestions /\ Len(OneshotAlerts(s)) = 1)

\* A request failed while a result set was on display: nothing is displayed now.
C6_Witness ==
    \E s \in Oneshots :
        /\ s = Len(sessions)
        /\ sessions[s].pc = "failed"
        /\ ~sessions[s].prev.null
        /\ questions = NullQuestions

(***************************************************************************)
(* C7 (Spec).  Pressing generate with an empty or whitespace-only job      *)
(* description, in either client, shows the validation alert, issues no    *)
(* request, and leaves the result set, the loading and streaming flags,    *)
(* the status message and the selected category as they were.              *)
(***************************************************************************)
C7_BlankInputRejected ==
    [][ (clicks' = clicks + 1 /\ Trim(jobDescription) = <<>>) =>
            /\ sessions' = sessions
            /\ questions' = questions
            /\ loading' = loading
            /\ isStreaming' = isStreaming
            /\ streamStatus' = streamStatus
            /\ selectedCategory' = selectedCategory
            /\ Len(alerts') = Len(alerts) + 1
            /\ alerts'[Len(alerts')].kind = "validation"
      ]_vars

\* Generate was pressed on a whitespace-only description while a result set was shown.
C7_Witness ==
    /\ jobDescription = <<" ">>
    /\ alerts # <<>>
    /\ alerts[Len(alerts)].kind = "validation"
    /\ Len(sessions) = 1
    /\ clicks = 2
    /\ ~questions.null
    /\ \E c \in DOMAIN questions.cats : questions.cats[c] # <<>>

(***************************************************************************)
(* C8 (Spec).  Cancelling a streaming session -- the page is left and Home *)
(* unmounts -- aborts the transfer and no frame of the session is          *)
(* processed afterwards: a session whose instance is no longer mounted is  *)
(* neither fetching nor reading, and every call of handleStreamEvent was   *)
(* made while the instance of its session was mounted.                     *)
(***************************************************************************)
C8_CancelStopsSession ==
    \A s \in Streams :
        /\ ~Live(sessions[s].inst) => sessions[s].pc \notin {"fetching", "reading"}
        /\ \A i \in DOMAIN sessions[s].calls : sessions[s].calls[i].live


(***************************************************************************)
(* Helpers of the properties of one turn of the read loop.                 *)
(***************************************************************************)
IsPrefix(a, b) == Len(a) <= Len(b) /\ SubSeq(b, 1, Len(a)) = a

\* The result set after the first k calls of session s.
FoldQ(s, k) ==
    ApplyCalls(StartUI, s, sessions[s].inst, SubSeq(sessions[s].calls, 1, k)).questions

\* Session s takes a turn of its read loop in this step.
Turn(s) ==
    /\ sessions[s].kind = "stream"
    /\ sessions[s].pc = "reading"
    /\ Len(sessions'[s].consumed) > Len(sessions[s].consumed)

\* The lines framed and the calls made in this step.
Batch(s) == SubSeq(sessions'[s].lines, Len(sessions[s].lines) + 1, Len(sessions'[s].lines))
Made(s)  == SubSeq(sessions'[s].calls, Len(sessions[s].calls) + 1, Len(sessions'[s].calls))

(***************************************************************************)
(* C11 (SpecStream).  Processing one question event with category c makes  *)
(* the sequence of c one longer with the payload as its last entry,        *)
(* creates the sequence when c was absent, and leaves every other category *)
(* sequence and job_analysis as they were.  The result set shown is the    *)
(* one the calls made so far produce, and for every question call the      *)
(* result sets before and after it differ in exactly that way.             *)
(***************************************************************************)
C11_QuestionAppendsOne ==
    \A s \in Reading :
        LET calls == sessions[s].calls IN
        /\ questions = FoldQ(s, Len(calls))
        /\ \A k \in DOMAIN calls :
               calls[k].event = <<"question">> =>
                   LET before == FoldQ(s, k - 1)
                       after  == FoldQ(s, k)
                       c      == Category(calls[k].data)
                       old    == IF c \in DOMAIN before.cats THEN before.cats[c] ELSE <<>>
                   IN  /\ DOMAIN after.cats = DOMAIN before.cats \cup {c}
                       /\ Len(after.cats[c]) = Len(old) + 1
                       /\ after.cats[c][Len(after.cats[c])] = calls[k].data
                       /\ SubSeq(after.cats[c], 1, Len(old)) = old
                       /\ \A d \in DOMAIN before.cats \ {c} : after.cats[d] = before.cats[d]
                       /\ after.job_analysis = before.job_analysis
                       /\ after.null = before.null

\* A question of a category the result set did not hold was applied after the job
\* analysis had been set, or a second question was appended to a category.
C11_Witness ==
    \E s \in Reading :
        \E k \in DOMAIN sessions[s].calls :
            /\ k > 1
            /\ sessions[s].calls[k].event = <<"question">>
            /\ \/ /\ Category(sessions[s].calls[k].data) \notin Categories
                  /\ sessions[s].calls[k - 1].event = <<"job_analysis">>
                  /\ questions.job_analysis = "ja"
                  /\ Category(sessions[s].calls[k].data) \in DOMAIN questions.cats
               \/ /\ sessions[s].calls[k - 1].event = <<"question">>
                  /\ sessions[s].calls[k - 1].data # sessions[s].calls[k].data
                  /\ Category(sessions[s].calls[k - 1].data) = Category(sessions[s].calls[k].data)
                  /\ Len(questions.cats["technical"]) = 2

(***************************************************************************)
(* C12 (SpecStream).  During a streaming session every category sequence   *)
(* is append-only and in arrival order: in every step of a session that is *)
(* reading, each category sequence is a prefix of its value after the      *)
(* step, the calls made so far are a prefix of those made after it and     *)
(* come from data lines in the order the framer produced them, and each    *)
(* category sequence is the question payloads of that category in the      *)
(* order of the calls.                                                     *)
(***************************************************************************)
C12_AppendOnlyInArrivalOrder ==
    [][ \A s \in DOMAIN sessions :
           (sessions[s].kind = "stream" /\ sessions[s].pc = "reading") =>
               /\ \A c \in DOMAIN questions.cats :
                      /\ c \in DOMAIN questions'.cats
                      /\ IsPrefix(questions.cats[c], questions'.cats[c])
               /\ IsPrefix(sessions[s].calls, sessions'[s].calls)
               /\ \A i, j \in DOMAIN sessions'[s].calls :
                      i < j => sessions'[s].calls[i].line < sessions'[s].calls[j].line
               /\ \A c \in DOMAIN questions'.cats :
                      questions'.cats[c] = QuestionsOf(sessions'[s].calls, c)
      ]_vars

\* Two different questions of one category were applied, the second in a later turn
\* of the read loop than the first (its event line did not come in one batch with
\* the first question's lines).
C12_Witness ==
    \E s \in Reading :
        /\ Len(questions.cats["technical"]) = 2
        /\ questions.cats["technical"][1] # questions.cats["technical"][2]
        /\ Len(sessions[s].calls) = 2
        /\ sessions[s].calls[1].line = 2
        /\ sessions[s].calls[2].line = 4

(***************************************************************************)
(* C13 (SpecStream).  Processing a complete event ends the session at that *)
(* moment: once a complete event of the session has been processed the     *)
(* page is no longer loading or streaming, whether or not the transport    *)
(* has closed.                                                             *)
(***************************************************************************)
C13_CompleteEndsLoading ==
    \A s \in Streams :
        CallsOf(sessions[s].calls, <<"complete">>) # <<>> => (~loading /\ ~isStreaming)

(***************************************************************************)
(* C14 (SpecStream).  When the reader reports done and the session has     *)
(* processed neither an error event nor a complete event, the session ends *)
(* cleanly: nothing is reported to the user, the page is no longer loading *)
(* or streaming, the status message is empty, and the result set is the    *)
(* one the events of the session produced.                                 *)
(***************************************************************************)
EndedSilently(s) ==
    /\ sessions[s].pc = "done"
    /\ CallsOf(sessions[s].calls, <<"error">>) = <<>>
    /\ CallsOf(sessions[s].calls, <<"complete">>) = <<>>

C14_ImplicitCleanEnd ==
    \A s \in Streams :
        EndedSilently(s) =>
            /\ SelectSeq(alerts, LAMBDA a : a.sess = s) = <<>>
            /\ ~loading
            /\ ~isStreaming
            /\ streamStatus = ""
            /\ questions = FoldQ(s, Len(sessions[s].calls))

\* A body with a question and no complete event was read to its end.
C14_Witness ==
    \E s \in Streams :
        /\ EndedSilently(s)
        /\ CallsOf(sessions[s].calls, <<"question">>) # <<>>
        /\ \E c \in DOMAIN questions.cats : questions.cats[c] # <<>>

(***************************************************************************)
(* C15 (SpecStream).  An error event shows its message and does nothing    *)
(* else.  In every turn of the read loop that processes error events: one  *)
(* alert with the message is added per error event, the session is still   *)
(* reading and the page still loading and streaming, the result set and    *)
(* the status message are what the other events of the turn make of them,  *)
(* and the lines after the data line of an error event are dispatched as   *)
(* they are on their own.                                                  *)
(***************************************************************************)
NotError(calls) == SelectSeq(calls, LAMBDA c : c.event # <<"error">>)

ErrorAlerts(s, calls) ==
    LET errs == CallsOf(calls, <<"error">>)
    IN  [i \in DOMAIN errs |-> [sess |-> s, kind |-> "event", text |-> Message(errs[i].data)]]

C15_ErrorEventDoesNotTerminate ==
    [][ \A s \in DOMAIN sessions :
           (Turn(s) /\ CallsOf(Made(s), <<"error">>) # <<>>) =>
               LET base  == Len(sessions[s].lines)
                   batch == Batch(s)
                   made  == Made(s)
                   rest  == ApplyCalls(UI, s, sessions[s].inst, NotError(made))
               IN  /\ sessions'[s].pc = "reading"
                   /\ loading' = loading
                   /\ isStreaming' = isStreaming
                   /\ alerts' = alerts \o ErrorAlerts(s, made)
                   /\ questions' = rest.questions
                   /\ streamStatus' = rest.streamStatus
                   /\ \A c \in DOMAIN made :
                          made[c].event = <<"error">> =>
                              Pairs(made) =
                                  Pairs(ChunkCalls(SubSeq(batch, 1, made[c].line - base), 0))
                                  \o Pairs(ChunkCalls(SubSeq(batch, made[c].line - base + 1,
                                                             Len(batch)), 0))
      ]_vars

\* An error event was processed and a question event after it was applied.
C15_Witness ==
    \E s \in Reading :
        /\ \E i, j \in DOMAIN sessions[s].calls :
               /\ i < j
               /\ sessions[s].calls[i].event = <<"error">>
               /\ sessions[s].calls[j].event = <<"question">>
        /\ alerts # <<>>
        /\ \E c \in DOMAIN questions.cats : questions.cats[c] # <<>>

(***************************************************************************)
(* C19 (SpecStream).  An event name is consumed once.  A data line that    *)
(* follows another data line with no event line between them makes no      *)
(* call, whether the earlier data line parsed or not, and no event line    *)
(* governs two calls.                                                      *)
(***************************************************************************)
\* The last event line before line i.
Governing(L, i) ==
    CHOOSE j \in 0..(i - 1) :
        /\ j > 0 => IsEventLine(L[j])
        /\ \A k \in (j + 1)..(i - 1) : ~IsEventLine(L[k])

C19_EventNameConsumedOnce ==
    \A s \in Reading :
        LET L     == sessions[s].lines
            calls == sessions[s].calls
        IN  /\ \A i \in DOMAIN L :
                   ( /\ IsDataLine(L[i])
                     /\ \E j \in 1..(i - 1) :
                            /\ IsDataLine(L[j])
                            /\ \A k \in (j + 1)..(i - 1) : ~IsEventLine(L[k]) )
                   => \A c \in DOMAIN calls : calls[c].line # i
            /\ \A c, d \in DOMAIN calls :
                   c # d => Governing(L, calls[c].line) # Governing(L, calls[d].line)

\* A well-formed data line directly follows a data line that made a call, and
\* makes none itself.
C19_Witness ==
    \E s \in Reading :
        \E i \in DOMAIN sessions[s].lines :
            /\ i > 1
            /\ IsDataLine(sessions[s].lines[i])
            /\ JSONParse(Slice(sessions[s].lines[i], Len(DataPrefix))) # SyntaxError
            /\ IsDataLine(sessions[s].lines[i - 1])
            /\ \E c \in DOMAIN sessions[s].calls : sessions[s].calls[c].line = i - 1
            /\ \A c \in DOMAIN sessions[s].calls : sessions[s].calls[c].line # i

(***************************************************************************)
(* C20 (SpecStream).  The pending event name is the rest of the event line *)
(* with surrounding white space trimmed: in every turn of the read loop,   *)
(* an event line whose trimmed name is status, directly followed in the    *)
(* batch by a well-formed data line, is dispatched as the status event.    *)
(***************************************************************************)
C20_EventNameTrimmed ==
    [][ \A s \in DOMAIN sessions :
           Turn(s) =>
               LET base  == Len(sessions[s].lines)
                   batch == Batch(s)
                   made  == Made(s)
               IN  \A i \in DOMAIN batch :
                       ( /\ i > 1
                         /\ IsEventLine(batch[i - 1])
                         /\ Trim(Slice(batch[i - 1], Len(EventPrefix))) = <<"status">>
                         /\ IsDataLine(batch[i])
                         /\ JSONParse(Slice(batch[i], Len(DataPrefix))) # SyntaxError )
                       => \E c \in DOMAIN made :
                              /\ made[c].line = base + i
                              /\ made[c].event = <<"status">>
      ]_vars

(***************************************************************************)
(* C16 (SpecOneShot).  When load more is answered with an empty questions  *)
(* array or with none, the result set is left as it is and the 'no more'   *)
(* notice is shown; when the request fails, the result set is left as it   *)
(* is and the failure notice, a different one, is shown.  In both cases    *)
(* loadingMore is false afterwards.                                        *)
(***************************************************************************)
MoreEnds(r) ==
    /\ requests[r].kind = "more"
    /\ requests[r].pc = "pending"
    /\ requests'[r].pc # "pending"

C16_EmptyLoadMoreIsNotAFailure ==
    [][ \A r \in DOMAIN requests :
           ( /\ MoreEnds(r)
             /\ \/ requests'[r].answer.outcome = "error"
                \/ requests'[r].answer.value = <<>> )
           =>
           /\ questions' = questions
           /\ ~loadingMore'
           /\ Len(alerts') = Len(alerts) + 1
           /\ SubSeq(alerts', 1, Len(alerts)) = alerts
           /\ alerts'[Len(alerts')].sess = r
           /\ alerts'[Len(alerts')].kind = "more"
           /\ alerts'[Len(alerts')].text =
                  IF requests'[r].answer.outcome = "error"
                  THEN "Failed to load more" ELSE "No more unique questions"
      ]_vars

\* With a non-empty list on display, one load more was answered without a questions
\* member and another failed.
C16_Witness ==
    /\ CurrentQuestions # <<>>
    /\ \E r1, r2 \in DOMAIN requests :
           /\ requests[r1].kind = "more"
           /\ requests[r1].pc = "empty"
           /\ ~requests[r1].answer.present
           /\ requests[r2].kind = "more"
           /\ requests[r2].pc = "failed"
    /\ ~loadingMore

(***************************************************************************)
(* C17 (SpecOneShot).  A category key the generate-questions response      *)
(* lacks is displayed as an empty sequence: whenever the results of a      *)
(* one-shot screen are on display, the list shown for the selected         *)
(* category is the category's sequence, or the empty list when the result  *)
(* set has no such key, and the badge of every tab counts 0 for an absent  *)
(* key; the render does not fail.                                          *)
(***************************************************************************)
C17_MissingCategoryIsEmpty ==
    (app \in {"native", "legacy"} /\ ResultsShown) =>
        /\ ~RenderFails
        /\ (IF app = "legacy" THEN LegacyCurrentQuestions.list ELSE CurrentQuestions)
               = IF selectedCategory \in DOMAIN questions.cats
                 THEN questions.cats[selectedCategory] ELSE <<>>
        /\ \A c \in Tabs(app) : c \notin DOMAIN questions.cats => TabCount(c) = 0

(***************************************************************************)
(* C18 (SpecOneShot).  A failure of a text extraction, by either endpoint, *)
(* shows a message and leaves the result set, the loading flag and the job *)
(* description as they were; extracting is true exactly while an           *)
(* extraction is pending, so it is false again after every extraction.     *)
(***************************************************************************)
PendingExtracts(reqs) ==
    { r \in DOMAIN reqs : reqs[r].kind = "extract" /\ reqs[r].pc = "pending" }

C18_ExtractionFailureIsContained ==
    [][ /\ extracting' = (PendingExtracts(requests') # {})
        /\ \A r \in PendingExtracts(requests) :
               requests'[r].pc = "failed" =>
                   /\ questions' = questions
                   /\ loading' = loading
                   /\ jobDescription' = jobDescription
                   /\ sessions' = sessions
                   /\ alerts' = Append(alerts, [sess |-> r, kind |-> "extract",
                                                text |-> "Failed"])
      ]_vars

\* Both endpoints failed while a job description was in the input and a request for
\* questions was in flight or answered.
C18_Witness ==
    /\ \E r1, r2 \in DOMAIN requests :
           /\ requests[r1].kind = "extract"
           /\ requests[r1].arg = "file"
           /\ requests[r1].pc = "failed"
           /\ requests[r2].kind = "extract"
           /\ requests[r2].arg = "base64"
           /\ requests[r2].pc = "failed"
    /\ ~extracting
    /\ jobDescription # <<>>
    /\ sessions # <<>>

(***************************************************************************)
(* C21 (SpecStream).  The fragment left in the buffer at the end of the    *)
(* stream is discarded.  While a session reads, the text after the last    *)
(* newline delivered is held in the buffer and is not among the lines      *)
(* framed, and no call stems from it; when the reader reports done the     *)
(* fragment is dropped: no call is made and the result set, the selected   *)
(* category and the alerts stay as they were.                              *)
(***************************************************************************)
C21_TrailingFragmentDiscarded ==
    [][ \A s \in DOMAIN sessions :
           (sessions[s].kind = "stream" /\ sessions[s].pc = "reading") =>
               LET ses  == sessions[s]
                   segs == Split(ses.consumed)
               IN  /\ ses.buffer = segs[Len(segs)]
                   /\ ses.lines = SubSeq(segs, 1, Len(segs) - 1)
                   /\ \A c \in DOMAIN ses.calls : ses.calls[c].line <= Len(segs) - 1
                   /\ sessions'[s].pc = "done" =>
                          /\ sessions'[s].lost = ses.buffer
                          /\ sessions'[s].buffer = <<>>
                          /\ sessions'[s].calls = ses.calls
                          /\ questions' = questions
                          /\ selectedCategory' = selectedCategory
                          /\ alerts' = alerts
                          /\ timers' = timers
      ]_vars

\* A body ended in a well-formed data line without its newline, right after an
\* event line that was framed; the stream ended and nothing of the frame was applied.
C21_Witness ==
    \E s \in Streams :
        /\ sessions[s].pc = "done"
        /\ IsDataLine(sessions[s].lost)
        /\ JSONParse(Slice(sessions[s].lost, Len(DataPrefix))) # SyntaxError
        /\ sessions[s].calls = <<>>
        /\ questions = EmptyQuestions
        /\ alerts = <<>>

(***************************************************************************)
(* C22 (SpecStream).  A line that is neither an event line nor a data line *)
(* is ignored.  In every turn of the read loop the calls made are those    *)
(* the batch makes with all such lines taken out of it, so a blank or      *)
(* unrelated line between an event line and its data line does not keep    *)
(* the event from being applied, and the state after the turn is the one   *)
(* those calls produce.                                                    *)
(***************************************************************************)
IsOtherLine(line) == ~IsEventLine(line) /\ ~IsDataLine(line)

Relevant(lines) == SelectSeq(lines, LAMBDA l : ~IsOtherLine(l))

C22_OtherLinesIgnored ==
    [][ \A s \in DOMAIN sessions :
           Turn(s) =>
               LET made == Made(s)
                   ui   == ApplyCalls(UI, s, sessions[s].inst, made)
               IN  /\ Pairs(made) = Pairs(ChunkCalls(Relevant(Batch(s)), 0))
                   /\ questions' = ui.questions
                   /\ streamStatus' = ui.streamStatus
                   /\ selectedCategory' = ui.selectedCategory
                   /\ alerts' = ui.alerts
      ]_vars

\* A status event was applied whose data line came two lines after its event line,
\* a blank line and an unrelated line between them.
C22_Witness ==
    \E s \in Reading :
        \E c \in DOMAIN sessions[s].calls :
            LET i == sessions[s].calls[c].line IN
            /\ i > 3
            /\ sessions[s].lines[i - 1] # <<>>
            /\ IsOtherLine(sessions[s].lines[i - 1])
            /\ sessions[s].lines[i - 2] = <<>>
            /\ IsEventLine(sessions[s].lines[i - 3])
            /\ sessions[s].calls[c].event = <<"status">>
            /\ streamStatus = "m1"

(***************************************************************************)
(* C23 (SpecStream).  A well-formed frame with an unrecognized event name  *)
(* is ignored silently.  In every turn of the read loop the result set,    *)
(* the status message, the selected category, the alerts and the timers    *)
(* after the turn are what the calls with recognized names make of them,   *)
(* and the lines after such a frame are dispatched as they are on their    *)
(* own (its name is consumed).                                             *)
(***************************************************************************)
Recognized ==
    { <<"status">>, <<"job_analysis">>, <<"question">>, <<"complete">>, <<"error">> }

C23_UnknownEventIgnored ==
    [][ \A s \in DOMAIN sessions :
           Turn(s) =>
               LET base  == Len(sessions[s].lines)
                   batch == Batch(s)
                   made  == Made(s)
                   known == SelectSeq(made, LAMBDA c : c.event \in Recognized)
                   ui    == ApplyCalls(UI, s, sessions[s].inst, known)
               IN  /\ questions' = ui.questions
                   /\ streamStatus' = ui.streamStatus
                   /\ selectedCategory' = ui.selectedCategory
                   /\ alerts' = ui.alerts
                   /\ timers' = ui.timers
                   /\ \A c \in DOMAIN made :
                          made[c].event \notin Recognized =>
                              Pairs(made) =
                                  Pairs(ChunkCalls(SubSeq(batch, 1, made[c].line - base), 0))
                                  \o Pairs(ChunkCalls(SubSeq(batch, made[c].line - base + 1,
                                                             Len(batch)), 0))
      ]_vars

\* A frame named ping was dispatched after a question; only the question shows.
C23_Witness ==
    \E s \in Reading :
        /\ \E i, j \in DOMAIN sessions[s].calls :
               /\ i < j
               /\ sessions[s].calls[i].event = <<"question">>
               /\ sessions[s].calls[j].event = <<"ping">>
        /\ alerts = <<>>
        /\ streamStatus = "Starting..."
        /\ \E c \in DOMAIN questions.cats : questions.cats[c] # <<>>

(***************************************************************************)
(* C24 (SpecStream).  Processing a job_analysis event sets job_analysis to *)
(* the payload of the event, whatever it was before, and leaves every      *)
(* category sequence as it was.                                            *)
(***************************************************************************)
C24_JobAnalysisOverwrites ==
    \A s \in Reading :
        LET calls == sessions[s].calls IN
        /\ questions = FoldQ(s, Len(calls))
        /\ \A k \in DOMAIN calls :
               calls[k].event = <<"job_analysis">> =>
                   /\ FoldQ(s, k).job_analysis = calls[k].data
                   /\ FoldQ(s, k).cats = FoldQ(s, k - 1).cats
                   /\ FoldQ(s, k).null = FoldQ(s, k - 1).null

\* Two job_analysis events with different payloads were applied; the second shows.
C24_Witness ==
    \E s \in Reading :
        /\ Len(sessions[s].calls) = 2
        /\ sessions[s].calls[1].event = <<"job_analysis">>
        /\ sessions[s].calls[2].event = <<"job_analysis">>
        /\ sessions[s].calls[1].data # sessions[s].calls[2].data
        /\ questions.job_analysis = sessions[s].calls[2].data

(***************************************************************************)
(* SpecStreamFair: SpecStream under a transport that does not hang: the    *)
(* body being read is eventually delivered, ended or dropped.              *)
(***************************************************************************)
Transport(s) ==
    /\ s \in DOMAIN sessions
    /\ \/ \E n \in 1..Len(sessions[s].rest) : ReadChunk(s, n)
       \/ ReadDone(s)
       \/ ReadFail(s)

SpecStreamFair == SpecStream /\ WF_vars(Transport(1))

InFlight(s) ==
    /\ s \in DOMAIN sessions
    /\ sessions[s].kind = "stream"
    /\ sessions[s].pc \in {"fetching", "reading"}

Ended(s) ==
    /\ s \in DOMAIN sessions
    /\ sessions[s].kind = "stream"
    /\ sessions[s].pc \in {"done", "failed"}

(***************************************************************************)
(* C25 (SpecStreamFair). Every streaming session whose transport completes or   *)
(* fails ends, and the step that ends it leaves the page that started it   *)
(* with loading = false, isStreaming = false and an empty status message,  *)
(* whatever was dispatched before.  Until then the page is loading and     *)
(* streaming, and a step in which the transport of the session neither     *)
(* delivers nor ends (and the page stays mounted) leaves it so: nothing    *)
(* times the session out.                                                  *)
(***************************************************************************)
C25_EndedTransportEndsLoading ==
    /\ InFlight(1) ~> Ended(1)
    /\ [][ \A s \in DOMAIN sessions :
              (InFlight(s) /\ Live(sessions[s].inst)) =>
                  /\ loading /\ isStreaming
                  /\ Ended(s)' =>
                         ~loading' /\ ~isStreaming' /\ streamStatus' = ""
                  /\ (sessions'[s] = sessions[s] /\ mounted') =>
                         loading' /\ isStreaming'
         ]_vars

\* A session that dispatched an error event and a question has ended on its page;
\* the alert of the error event is on record and the flags are down.
C25_Witness ==
    \E s \in DOMAIN sessions :
        /\ Ended(s)
        /\ Live(sessions[s].inst)
        /\ \E c \in DOMAIN sessions[s].calls : sessions[s].calls[c].event = <<"error">>
        /\ \E c \in DOMAIN sessions[s].calls : sessions[s].calls[c].event = <<"question">>
        /\ ~loading /\ ~isStreaming /\ streamStatus = ""

(***************************************************************************)
(* C26 (Spec).  At most one streaming request is in flight at any time.    *)
(***************************************************************************)
C26_OneStreamInFlight ==
    Cardinality({ s \in DOMAIN sessions : InFlight(s) }) <= 1

(***************************************************************************)
(* C27 (Spec).  The delayed clear of the status message scheduled by a     *)
(* complete event affects only the session that scheduled it: when a timer *)
(* fires while a session of the mounted page is in flight that has not     *)
(* dispatched complete (so the timer is not its own), the status message   *)
(* stays as it is.                                                         *)
(***************************************************************************)
C27_TimerClearsOwnSessionOnly ==
    [][ ( /\ timers # <<>>
          /\ timers' = Tail(timers)
          /\ sessions' = sessions
          /\ \E s \in DOMAIN sessions :
                 /\ InFlight(s)
                 /\ Live(sessions[s].inst)
                 /\ CallsOf(sessions[s].calls, <<"complete">>) = <<>> )
        => streamStatus' = streamStatus
      ]_vars

(***************************************************************************)
(* C28 (SpecOneShot).  A load more answered after a new generation has     *)
(* reset the result set is not merged into the results of the new          *)
(* generation: the step that ends such a request leaves the result set as  *)
(* it is.                                                                  *)
(***************************************************************************)
C28_LateLoadMoreNotMerged ==
    [][ \A r \in DOMAIN requests :
           ( /\ requests[r].kind = "more"
             /\ requests[r].pc = "pending"
             /\ requests'[r].pc # "pending"
             /\ Len(sessions) > requests[r].during )
           => questions' = questions
      ]_vars

(***************************************************************************)
(* Saving to favorites and the answer modal (Home.jsx:151-179, 317-324,    *)
(* 352-398; index.tsx:201-225, 367-374, 419-475).  A question is named by  *)
(* its id.  While the modal is open it covers the cards.                   *)
(***************************************************************************)

\* openModal / openFlashcard: setSelectedQuestion(question); setModalOpen(true)
OpenModal(q) ==
    /\ ResultsShown
    /\ ~modalOpen
    /\ \E i \in DOMAIN CurrentQuestions : CurrentQuestions[i] = q
    /\ selectedQuestion' = q
    /\ modalOpen' = TRUE
    /\ UNCHANGED <<app, mounted, inst, jobDescription, loading, isStreaming, questions,
                   selectedCategory, streamStatus, sessions, timers, alerts, clicks,
                   loadingMore, extracting, requests, savingIds>>

\* The close button and the overlay of the modal: setModalOpen(false)
CloseModal ==
    /\ modalOpen
    /\ modalOpen' = FALSE
    /\ UNCHANGED <<app, mounted, inst, jobDescription, loading, isStreaming, questions,
                   selectedCategory, streamStatus, sessions, timers, alerts, clicks,
                   loadingMore, extracting, requests, savingIds, selectedQuestion>>

\* saveToFavorites up to its await: setSavingIds(prev => new Set(prev).add(question.id)),
\* then the POST is sent.
SaveToFavorites(q) ==
    /\ Len(requests) < MaxRequests
    /\ savingIds' = savingIds \cup {q}
    /\ requests' = Append(requests, NewRequest("save", "pending", q))
    /\ UNCHANGED <<app, mounted, inst, jobDescription, loading, isStreaming, questions,
                   selectedCategory, streamStatus, sessions, timers, alerts, clicks,
                   loadingMore, extracting>>

\* The heart button of a card: disabled={savingIds.has(q.id)}
CardSave(q) ==
    /\ ResultsShown
    /\ ~modalOpen
    /\ \E i \in DOMAIN CurrentQuestions : CurrentQuestions[i] = q
    /\ q \notin savingIds
    /\ SaveToFavorites(q)
    /\ UNCHANGED <<selectedQuestion, modalOpen>>

\* The save button of the modal, which has no disabled attribute:
\* saveToFavorites(selectedQuestion); setModalOpen(false)
ModalSave ==
    /\ modalOpen
    /\ selectedQuestion # "null"
    /\ SaveToFavorites(selectedQuestion)
    /\ modalOpen' = FALSE
    /\ UNCHANGED selectedQuestion

\* finally { setSavingIds(prev => { const s = new Set(prev); s.delete(question.id); return s }) }
SaveEnds(r, pc, text) ==
    /\ requests[r].kind = "save"
    /\ requests[r].pc = "pending"
    /\ requests' = [requests EXCEPT ![r].pc = pc]
    /\ alerts' = Append(alerts, [sess |-> r, kind |-> "save", text |-> text])
    /\ savingIds' = savingIds \ {requests[r].arg}
    /\ UNCHANGED <<app, mounted, inst, jobDescription, loading, isStreaming, questions,
                   selectedCategory, streamStatus, sessions, timers, clicks,
                   loadingMore, extracting, selectedQuestion, modalOpen>>

\* axios.post of /api/favorites resolves.
SaveResolve(r) == SaveEnds(r, "saved", "Saved to favorites!")

\* axios.post of /api/favorites rejects.
SaveReject(r) == SaveEnds(r, "failed", "Failed to save")

(***************************************************************************)
(* SpecFavorites: a result set is on display on the web page or the native *)
(* screen; the user moves between the tabs, opens and closes the answer    *)
(* modal and saves questions from the cards and from the modal.            *)
(***************************************************************************)
InitFavorites ==
    /\ app \in {"web", "native"}
    /\ mounted = TRUE
    /\ inst = 1
    /\ jobDescription = <<"a">>
    /\ loading = FALSE
    /\ isStreaming = FALSE
    /\ IF app = "web" THEN questions \in WebResults ELSE questions \in NativeResponses
    /\ selectedCategory = "technical"
    /\ streamStatus = ""
    /\ sessions = <<>>
    /\ timers = <<>>
    /\ alerts = <<>>
    /\ clicks = 1
    /\ loadingMore = FALSE
    /\ extracting = FALSE
    /\ requests = <<>>
    /\ savingIds = {}
    /\ selectedQuestion = "null"
    /\ modalOpen = FALSE

NextFavorites ==
    \/ \E c \in Categories : SelectCategory(c)
    \/ \E q \in Atoms : OpenModal(q)
    \/ CloseModal
    \/ \E q \in Atoms : CardSave(q)
    \/ ModalSave
    \/ \E r \in DOMAIN requests : SaveResolve(r)
    \/ \E r \in DOMAIN requests : SaveReject(r)

SpecFavorites == InitFavorites /\ [][NextFavorites]_vars

PendingSaves(q) ==
    { r \in DOMAIN requests :
        requests[r].kind = "save" /\ requests[r].pc = "pending" /\ requests[r].arg = q }

(***************************************************************************)
(* C29 (SpecFavorites).  A question id is in savingIds exactly while at    *)
(* least one save of that question is in flight.                           *)
(***************************************************************************)
C29_SavingIdsTracksPendingSaves ==
    \A q \in Atoms : (q \in savingIds) <=> (PendingSaves(q) # {})

(***************************************************************************)
(* SpecSelect: SpecStream with the user at the tabs, which are on screen   *)
(* as soon as one question has arrived (Home.jsx:259-281).                 *)
(***************************************************************************)
NextSelect ==
    \/ \E n \in 1..Len(sessions[1].rest) : ReadChunk(1, n)
    \/ ReadDone(1)
    \/ ReadFail(1)
    \/ StatusTimeout
    \/ \E c \in Categories : SelectCategory(c)

SpecSelect == InitStream /\ [][NextSelect]_vars

(***************************************************************************)
(* C30 (SpecSelect).  The selected category is switched to technical when  *)
(* the first technical question of the session arrives; a turn of the read *)
(* loop of a session that has dispatched a technical question before       *)
(* leaves the selected category as it is, so the tab the user chose after  *)
(* the first technical question stays selected.                            *)
(***************************************************************************)
C30_AutoSwitchOnFirstTechnicalOnly ==
    [][ \A s \in DOMAIN sessions :
           (Turn(s) /\ QuestionsOf(sessions[s].calls, "technical") # <<>>)
           => selectedCategory' = selectedCategory
      ]_vars

====
